---- MODULE Spec2Model ----
(***************************************************************************)
(* Conversation lifecycle and background summarization of the chat API     *)
(* (src/services/chat_api): the conversation registry and transcript       *)
(* store, the request handlers that write them, and the summarization      *)
(* service whose ticks archive and summarize inactive conversations.       *)
(*                                                                         *)
(* Time is counted in minutes.  Every database session is a transaction    *)
(* under READ COMMITTED: its UPDATE of a row stays pending (and holds the  *)
(* row's lock) until the session commits or rolls back.                    *)
(***************************************************************************)
EXTENDS Integers, Sequences, FiniteSets, TLC

\* ---------------------------------------------------------------- bounds
MaxConvs == 2
MaxTime == 32
MaxMsgs == 3
MaxFaults == 1
MaxIncrements == 2
MaxTurns == 1

\* ------------------------------------------------------ program constants
FifteenMinutes == 15
HistoryLimit == 20
MinMessages == 2
MinutesPerDay == 1440
\* settings.summarization_interval_seconds, in seconds.
CheckInterval == 300
\* "await asyncio.sleep(60)" of start()'s handler, in seconds.
BackOff == 60

\* A nullable text column holds NULL or a string; a nullable timestamp or
\* JSONB column holds None (the empty tuple) or the one-element tuple <<v>>.
NULL == "NULL"
None == <<>>
Some(v) == <<v>>
Users == {"u1", "u2"}
ConvIds == 1..MaxConvs
\* The clock moves by the inactivity window or by one minute more.
AdvanceSteps == {FifteenMinutes, FifteenMinutes + 1}

valid_statuses == {"active", "in-progress", "archived"}
OpenStatuses == {"active", "in-progress"}
RequestedStatuses == valid_statuses \cup {"closed"}

FallbackSummary == "Previous conversation about general topics"
SummaryTexts == {"EMOTIONAL STATE: ..."}
\* What the generation inside summarizer_agent comes to: a text, or an
\* exception (a provider error, a content-safety rejection).
GenerationError == "GenerationError"
Generations == SummaryTexts \cup {GenerationError}
ModelName == "gemini-2.5-pro"
ZeroUsage == [prompt_tokens |-> 0, completion_tokens |-> 0, total_tokens |-> 0]

\* The keys of a usage record; a usage_delta is a dict with any of them,
\* each an integer.  A token_usage column as the increment may find it: NULL,
\* all zeros, or a JSON value without the three keys.
UsageKeys == {"prompt_tokens", "completion_tokens", "total_tokens"}
DeltaValues == {-1, 0, 2}
UsageDeltas == UNION {[S -> DeltaValues] : S \in SUBSET UsageKeys}
InitialUsages == {None, Some(ZeroUsage), Some(<<>>)}

SchedulerProcs == {"loop", "manual"}
RequestProcs == {"req"}
Procs == SchedulerProcs \cup RequestProcs

\* Two chat requests served at the same time, each with its own session.
Handlers == {"h1", "h2"}

\* The usage a chat agent returns: the zeros of the Gemini agent, or the
\* provider's counts.
ChatUsages == {ZeroUsage, [prompt_tokens |-> 2, completion_tokens |-> 2, total_tokens |-> 4]}

VARIABLES
    now,        \* the clock, in minutes
    rows,       \* chatbot_conversation_audit, committed: existing ids -> row
    msgs,       \* chatbot_user_memory, committed: ConvIds -> sequence of messages
    proc,       \* the summarization runs in flight: Procs -> record
    faults,     \* storage failures still to be injected
    genCalls,   \* per conversation: calls of summarizer_agent made for it
    sumWrites,  \* per conversation: committed writes of conversation_summary
    usageDeltas,    \* per conversation: the usage_delta of every increment call so far
    statusResponse, \* how the last status request ended: NULL before the first
    handler     \* the chat requests in flight, statement by statement: Handlers -> record

vars == <<now, rows, msgs, proc, faults, genCalls, sumWrites, usageDeltas,
          statusResponse, handler>>

\* ------------------------------------------------------------- helpers
Range(s) == {s[i] : i \in 1..Len(s)}

Perms(S) ==
    {s \in [1..Cardinality(S) -> S] : \A i, j \in 1..Cardinality(S) : i # j => s[i] # s[j]}

Max(S) == CHOOSE x \in S : \A y \in S : y <= x

\* ------------------------------------------------ storage: rows and tx
\* ChatbotConversationAudit(user_id, title, status='in-progress'); the other
\* columns take their defaults.
NewConversation(u, t) ==
    [user_id |-> u, status |-> "in-progress", last_message_at |-> None,
     created_at |-> t, conversation_summary |-> NULL, model |-> NULL,
     token_usage |-> None, archived |-> FALSE]

\* A session's pending writes: a function from the rows it has updated to
\* their new contents; NoTx when it has none.
NoTx == <<>>

\* The rows as session p reads them: its own pending writes over the
\* committed rows.
View(p) ==
    [c \in DOMAIN rows |-> IF c \in DOMAIN proc[p].tx THEN proc[p].tx[c] ELSE rows[c]]

\* Some session other than p holds the lock of row c.
LockedByOther(p, c) == \E q \in Procs \ {p} : c \in DOMAIN proc[q].tx

Locked(c) == \E q \in Procs : c \in DOMAIN proc[q].tx

\* ---------------------------------------------------------- crud.py
\* ValidStatus without the test: every string is accepted.
ValidStatusAny(new_status) == TRUE

\* "if new_status not in valid_statuses: raise ValueError"
ValidStatus(new_status) == new_status \in valid_statuses

\* update(...).values(status=new_status)
update_conversation_status(r, new_status) == [r EXCEPT !.status = new_status]

\* update(...).values(last_message_at=datetime.utcnow())
update_conversation_timestamp(r, t) == [r EXCEPT !.last_message_at = Some(t)]

\* "if not isinstance(current_usage, dict)": the column is NULL.
CurrentUsage(r) == IF r.token_usage = None THEN ZeroUsage ELSE r.token_usage[1]

\* int(d.get(key, 0) or 0): a key the dict does not have counts as 0; an
\* integer is taken as it is, whatever its sign.
GetOrZero(d, key) == IF key \in DOMAIN d THEN d[key] ELSE 0

\* increment_conversation_token_usage writing the delta over the stored
\* counters instead of adding it to them.
increment_conversation_token_usage_overwrite(r, usage_delta, model) ==
    LET new_usage ==
            [prompt_tokens |-> GetOrZero(usage_delta, "prompt_tokens"),
             completion_tokens |-> GetOrZero(usage_delta, "completion_tokens"),
             total_tokens |-> GetOrZero(usage_delta, "total_tokens")]
    IN  IF model # NULL
        THEN [r EXCEPT !.token_usage = Some(new_usage), !.model = model]
        ELSE [r EXCEPT !.token_usage = Some(new_usage)]

increment_conversation_token_usage(r, usage_delta, model) ==
    LET current_usage == CurrentUsage(r)
        new_usage ==
            [prompt_tokens |-> GetOrZero(current_usage, "prompt_tokens")
                                   + GetOrZero(usage_delta, "prompt_tokens"),
             completion_tokens |-> GetOrZero(current_usage, "completion_tokens")
                                       + GetOrZero(usage_delta, "completion_tokens"),
             total_tokens |-> GetOrZero(current_usage, "total_tokens")
                                  + GetOrZero(usage_delta, "total_tokens")]
    IN  IF model # NULL
        THEN [r EXCEPT !.token_usage = Some(new_usage), !.model = model]
        ELSE [r EXCEPT !.token_usage = Some(new_usage)]

\* update_conversation_summary taking a usage whose counters are all 0 for
\* no usage at all ("if token_usage" false): token_usage is left as it was.
update_conversation_summary_skip_zero(r, summary, model, token_usage) ==
    LET r1 == [r EXCEPT !.conversation_summary = summary]
        r2 == IF model # NULL THEN [r1 EXCEPT !.model = model] ELSE r1
    IN  IF token_usage # None /\ token_usage # Some(ZeroUsage)
        THEN [r2 EXCEPT !.token_usage = token_usage]
        ELSE r2

\* A usage dict with keys is truthy, also when all its counters are 0.
update_conversation_summary(r, summary, model, token_usage) ==
    LET r1 == [r EXCEPT !.conversation_summary = summary]
        r2 == IF model # NULL THEN [r1 EXCEPT !.model = model] ELSE r1
    IN  IF token_usage # None THEN [r2 EXCEPT !.token_usage = token_usage] ELSE r2

\* ChatbotUserMemory(conversation_id, user_id, role, content); created_at
\* takes its default.
save_message(history, user_id, role, t) ==
    Append(history, [user_id |-> user_id, role |-> role, created_at |-> t])

\* get_conversation without "ChatbotConversationAudit.user_id == user_id".
get_conversation_any_owner(R, conversation_id, user_id) ==
    IF conversation_id \in DOMAIN R THEN Some(R[conversation_id]) ELSE None

\* select(...).where(conversation_id == ..., user_id == ...).scalar_one_or_none()
get_conversation(R, conversation_id, user_id) ==
    IF conversation_id \in DOMAIN R /\ R[conversation_id].user_id = user_id
    THEN Some(R[conversation_id])
    ELSE None

\* order_by(created_at.asc()).limit(limit): messages are appended in time
\* order, so the stored sequence is already ascending.
get_message_history(history) ==
    IF Len(history) <= HistoryLimit THEN history ELSE SubSeq(history, 1, HistoryLimit)

\* ArchiveEligible with the threshold compared by <= instead of <.
ArchiveEligibleInclusive(r, t) ==
    /\ r.status \in OpenStatuses
    /\ r.last_message_at # None
    /\ r.last_message_at[1] <= t - FifteenMinutes
    /\ r.conversation_summary = NULL

\* The WHERE clause of get_conversations_to_archive; a comparison with a
\* NULL last_message_at is not true in SQL.
ArchiveEligible(r, t) ==
    /\ r.status \in OpenStatuses
    /\ r.last_message_at # None
    /\ r.last_message_at[1] < t - FifteenMinutes
    /\ r.conversation_summary = NULL

get_conversations_to_archive(R, t) ==
    {c \in DOMAIN R : ArchiveEligible(R[c], t)}

\* get_conversations_to_summarize_by_user_inactivity: the latest created_at
\* over all of the user's messages, whatever their role, decides inactivity.
UserMessageTimes(R, M, u) ==
    UNION {{M[c][i].created_at : i \in {k \in 1..Len(M[c]) : M[c][k].user_id = u}} :
               c \in DOMAIN R}

UserInactive(R, M, u, t) ==
    LET times == UserMessageTimes(R, M, u)
    IN  times = {} \/ Max(times) < t - FifteenMinutes

get_conversations_to_summarize_by_user_inactivity(R, M, u, t) ==
    IF UserInactive(R, M, u, t)
    THEN {c \in DOMAIN R : /\ R[c].user_id = u
                           /\ R[c].conversation_summary = NULL
                           /\ R[c].status \in OpenStatuses}
    ELSE {}

\* get_user_inactivity_status: func.max(created_at) over the messages whose
\* user_id is the user's, which save_message sets on the assistant's messages
\* too; the fields of the answer that depend on the stored state.
get_user_inactivity_status(R, M, u, t) ==
    LET times == UserMessageTimes(R, M, u)
        last_message_time == IF times = {} THEN None ELSE Some(Max(times))
        active_conversations ==
            {c \in DOMAIN R : R[c].user_id = u /\ R[c].status \in OpenStatuses}
        conversations_to_summarize ==
            get_conversations_to_summarize_by_user_inactivity(R, M, u, t)
    IN  [last_message_time |-> last_message_time,
         is_inactive |-> \/ last_message_time = None
                         \/ last_message_time[1] < t - FifteenMinutes,
         active_conversations |-> Cardinality(active_conversations),
         conversations_to_summarize |-> Cardinality(conversations_to_summarize),
         should_summarize |-> Cardinality(conversations_to_summarize) > 0]

\* ---------------------------------------- cumulative summary context
\* The second condition of the query's where(): the Python expression
\* "ChatbotConversationAudit.conversation_summary is not None" compares the
\* column object itself with None, so it is the constant True and the query
\* filters on user_id alone.
SummaryIsNotNone(r) == TRUE

\* order_by(created_at.asc()); rows created in the same minute in id order.
CreatedBefore(R, c, d) ==
    \/ R[c].created_at < R[d].created_at
    \/ R[c].created_at = R[d].created_at /\ c <= d

OrderByCreatedAt(R, S) ==
    CHOOSE s \in Perms(S) : \A i, j \in 1..Cardinality(S) : i < j => CreatedBefore(R, s[i], s[j])

ContextConversations(R, u) ==
    OrderByCreatedAt(R, {c \in DOMAIN R : R[c].user_id = u /\ SummaryIsNotNone(R[c])})

\* The text is the list of its paragraphs, which the code joins with blank
\* lines.  strftime('%Y-%m-%d') keeps the day of created_at; a NULL summary is
\* formatted as the text "None".
Sentinel == <<[text |-> "No previous conversation history available."]>>

IntroLine(n) == [text |-> "User has had N previous conversations", count |-> n]

ConversationLine(i, c, r) ==
    [text |-> "Conversation N (from date): summary", n |-> i, conv |-> c,
     date |-> r.created_at \div MinutesPerDay,
     summary |-> IF r.conversation_summary = NULL THEN "None" ELSE r.conversation_summary]

ClosingLine(n) == [text |-> "This is conversation #N for this user", n |-> n + 1]

get_cumulative_summary_context(R, u) ==
    LET conversations == ContextConversations(R, u)
        n == Len(conversations)
    IN  IF n = 0
        THEN Sentinel
        ELSE <<IntroLine(n)>>
             \o [i \in 1..n |-> ConversationLine(i, conversations[i], R[conversations[i]])]
             \o <<ClosingLine(n)>>

\* ------------------------------------------------------------- agents
\* summarizer_agent without its "except Exception": a failed generation
\* yields no text.
summarizer_agent_no_fallback(generation) ==
    IF generation = GenerationError
    THEN <<NULL, ZeroUsage, ModelName>>
    ELSE <<generation, ZeroUsage, ModelName>>

\* summarizer_agent catches every exception of its own and returns the
\* fallback text; either way usage is all zero and the model name is set.
summarizer_agent(generation) ==
    IF generation = GenerationError
    THEN <<FallbackSummary, ZeroUsage, ModelName>>
    ELSE <<generation, ZeroUsage, ModelName>>

\* ---------------------------------------------------------------- Init
\* A chat handler between requests; after a request it keeps what the
\* request loaded, read and answered.
IdleHandler ==
    [pc |-> "idle", user_id |-> NULL, conversation_id |-> 0, conversation |-> None,
     began |-> 0, usage |-> ZeroUsage, saved |-> <<>>, tx |-> None,
     current_usage |-> None, outcome |-> NULL, failedAt |-> NULL, turns |-> 0]

IdleProc ==
    [pc |-> "idle", user |-> NULL, batch |-> <<>>, i |-> 0, tx |-> NoTx,
     successful |-> 0, failed |-> 0, expired |-> FALSE, aborted |-> FALSE,
     pre |-> None, messages |-> <<>>, summary |-> NULL, usage |-> None,
     model_name |-> NULL, calls |-> 0, sleep |-> 0]

Init ==
    /\ now = 0
    /\ rows = <<>>
    /\ msgs = [c \in ConvIds |-> <<>>]
    /\ proc = [p \in Procs |-> IdleProc]
    /\ faults = 0
    /\ genCalls = [c \in ConvIds |-> 0]
    /\ sumWrites = [c \in ConvIds |-> 0]
    /\ usageDeltas = [c \in ConvIds |-> <<>>]
    /\ statusResponse = NULL
    /\ handler = [h \in Handlers |-> IdleHandler]

\* ------------------------------------------------------------- clock
AdvanceTime(d) ==
    /\ now + d <= MaxTime
    /\ now' = now + d
    /\ UNCHANGED <<rows, msgs, proc, faults, genCalls, sumWrites, usageDeltas, statusResponse, handler>>

\* --------------------------------------------------- request handlers
\* POST /api/ai/start-conversation: one transaction, committed at the end.
start_conversation(u) ==
    /\ Cardinality(DOMAIN rows) < MaxConvs
    /\ LET c == Cardinality(DOMAIN rows) + 1
           cumulative_context == get_cumulative_summary_context(rows, u)
           created == update_conversation_status(NewConversation(u, now), "active")
           stamped == update_conversation_timestamp(created, now)
           row == increment_conversation_token_usage(stamped, ZeroUsage, ModelName)
       IN  /\ rows' = [d \in DOMAIN rows \cup {c} |-> IF d = c THEN row ELSE rows[d]]
           /\ msgs' = [msgs EXCEPT ![c] = save_message(<<>>, u, "assistant", now)]
           /\ usageDeltas' = [usageDeltas EXCEPT ![c] = Append(@, ZeroUsage)]
    /\ UNCHANGED <<now, proc, faults, genCalls, sumWrites, statusResponse, handler>>

\* POST /api/ai/chat: the conversation is looked up by id and owner (404
\* otherwise); its status is not inspected.  The handler's UPDATE waits for
\* the row's lock.  The transcript is bounded: a conversation takes chat
\* turns up to MaxMsgs messages, and one turn more after each summary
\* committed for it.
chat(u, c) ==
    /\ c \in DOMAIN rows
    /\ get_conversation(rows, c, u) # None
    /\ ~Locked(c)
    /\ Len(msgs[c]) + 2 <= MaxMsgs + 2 * sumWrites[c]
    /\ LET stamped == update_conversation_timestamp(rows[c], now)
           status == update_conversation_status(stamped, "in-progress")
           row == increment_conversation_token_usage(status, ZeroUsage, ModelName)
       IN  /\ rows' = [rows EXCEPT ![c] = row]
           /\ msgs' = [msgs EXCEPT ![c] =
                          save_message(save_message(msgs[c], u, "user", now),
                                       u, "assistant", now)]
           /\ usageDeltas' = [usageDeltas EXCEPT ![c] = Append(@, ZeroUsage)]
    /\ UNCHANGED <<now, proc, faults, genCalls, sumWrites, statusResponse, handler>>

\* POST /api/conversations/{id}/status: an unknown status raises ValueError
\* before any statement is executed (answered 400 "Invalid input"); any
\* recognized status is written and committed, whatever the current status.
update_conversation_status_endpoint(u, c, new_status) ==
    /\ c \in DOMAIN rows
    /\ get_conversation(rows, c, u) # None
    /\ ~Locked(c)
    /\ IF ValidStatus(new_status)
       THEN /\ rows' = [rows EXCEPT ![c] = update_conversation_status(rows[c], new_status)]
            /\ statusResponse' = "updated"
       ELSE /\ UNCHANGED rows
            /\ statusResponse' = "ValueError"
    /\ UNCHANGED <<now, msgs, proc, faults, genCalls, sumWrites, usageDeltas, handler>>

\* ---------------------------------- POST /api/ai/chat, statement by statement
\* The UPDATE of a row waits while another session holds the row's lock,
\* which a session takes with its first UPDATE of the row and keeps until it
\* commits or rolls back.  RowLockIgnored is the UPDATE not waiting.
RowLockIgnored(h, c) == TRUE

RowLockAvailable(h, c) ==
    \A g \in Handlers \ {h} :
        ~(handler[g].tx # None /\ handler[g].conversation_id = c)

\* Steps 1 to 3 of chat: get_conversation (404 when the caller does not own
\* the conversation: nothing is written), the context and history reads, and
\* core_chat_agent, which returns the usage of its call.  The session's
\* transaction begins with the first read.
ChatBegin(h, u, c, usage) ==
    /\ handler[h].pc = "idle"
    /\ handler[h].turns < MaxTurns
    /\ get_conversation(rows, c, u) # None
    /\ handler' = [handler EXCEPT ![h] =
                      [IdleHandler EXCEPT !.pc = "save", !.user_id = u,
                                          !.conversation_id = c,
                                          !.conversation = get_conversation(rows, c, u),
                                          !.began = now, !.usage = usage,
                                          !.turns = handler[h].turns]]
    /\ UNCHANGED <<now, rows, msgs, proc, faults, genCalls, sumWrites, usageDeltas,
                   statusResponse>>

\* The two save_message calls: the INSERTs are flushed, pending in the
\* session's transaction.
ChatSave(h) ==
    /\ handler[h].pc = "save"
    /\ handler' = [handler EXCEPT ![h] =
                      [@ EXCEPT !.pc = "update",
                                !.saved = save_message(
                                              save_message(<<>>, handler[h].user_id, "user",
                                                           handler[h].began),
                                              handler[h].user_id, "assistant",
                                              handler[h].began)]]
    /\ UNCHANGED <<now, rows, msgs, proc, faults, genCalls, sumWrites, usageDeltas,
                   statusResponse>>

\* update_conversation_timestamp and update_conversation_status: the first
\* UPDATE takes the row's lock and works on the row as last committed.
ChatUpdate(h) ==
    /\ handler[h].pc = "update"
    /\ RowLockAvailable(h, handler[h].conversation_id)
    /\ LET stamped == update_conversation_timestamp(rows[handler[h].conversation_id], now)
           status == update_conversation_status(stamped, "in-progress")
       IN  handler' = [handler EXCEPT ![h] = [@ EXCEPT !.pc = "read", !.tx = Some(status)]]
    /\ UNCHANGED <<now, rows, msgs, proc, faults, genCalls, sumWrites, usageDeltas,
                   statusResponse>>

\* increment_conversation_token_usage, its SELECT of the token_usage column:
\* the session reads its own pending row.
ChatReadUsage(h) ==
    /\ handler[h].pc = "read"
    /\ handler' = [handler EXCEPT ![h] =
                      [@ EXCEPT !.pc = "write",
                                !.current_usage = handler[h].tx[1].token_usage]]
    /\ UNCHANGED <<now, rows, msgs, proc, faults, genCalls, sumWrites, usageDeltas,
                   statusResponse>>

\* increment_conversation_token_usage, its UPDATE: the counters read plus
\* the delta.
ChatWriteUsage(h) ==
    /\ handler[h].pc = "write"
    /\ LET read == [handler[h].tx[1] EXCEPT !.token_usage = handler[h].current_usage]
           row == increment_conversation_token_usage(read, handler[h].usage, ModelName)
       IN  handler' = [handler EXCEPT ![h] = [@ EXCEPT !.pc = "commit", !.tx = Some(row)]]
    /\ UNCHANGED <<now, rows, msgs, proc, faults, genCalls, sumWrites, usageDeltas,
                   statusResponse>>

\* "await db.commit()": the pending messages and the pending row become the
\* committed ones, together.
ChatCommit(h) ==
    /\ handler[h].pc = "commit"
    /\ LET c == handler[h].conversation_id
       IN  /\ rows' = [rows EXCEPT ![c] = handler[h].tx[1]]
           /\ msgs' = [msgs EXCEPT ![c] = @ \o handler[h].saved]
           /\ usageDeltas' = [usageDeltas EXCEPT ![c] = Append(@, handler[h].usage)]
    /\ handler' = [handler EXCEPT ![h] =
                      [@ EXCEPT !.pc = "idle", !.tx = None, !.saved = <<>>,
                                !.outcome = "committed", !.turns = @ + 1]]
    /\ UNCHANGED <<now, proc, faults, genCalls, sumWrites, statusResponse>>

\* ChatFail with the messages saved so far surviving the rollback.
ChatFailKeepingMessages(h) ==
    /\ handler[h].pc \in {"save", "update", "read", "write", "commit"}
    /\ faults > 0
    /\ faults' = faults - 1
    /\ msgs' = [msgs EXCEPT ![handler[h].conversation_id] = @ \o handler[h].saved]
    /\ handler' = [handler EXCEPT ![h] =
                      [@ EXCEPT !.pc = "idle", !.tx = None, !.saved = <<>>,
                                !.outcome = "failed", !.failedAt = handler[h].pc,
                                !.turns = @ + 1]]
    /\ UNCHANGED <<now, rows, proc, genCalls, sumWrites, usageDeltas, statusResponse>>

\* A statement of step 4 or the commit raises: "except Exception" runs
\* "await db.rollback()", which discards everything pending and releases the
\* lock, and answers 502.
ChatFail(h) ==
    /\ handler[h].pc \in {"save", "update", "read", "write", "commit"}
    /\ faults > 0
    /\ faults' = faults - 1
    /\ handler' = [handler EXCEPT ![h] =
                      [@ EXCEPT !.pc = "idle", !.tx = None, !.saved = <<>>,
                                !.outcome = "failed", !.failedAt = handler[h].pc,
                                !.turns = @ + 1]]
    /\ UNCHANGED <<now, rows, msgs, proc, genCalls, sumWrites, usageDeltas, statusResponse>>

\* ------------------------------------------- summarization_service.py
Current(p) == proc[p].batch[proc[p].i]

\* InsufficientMessages with the test "len(messages) < 1".
InsufficientMessagesEmptyOnly(messages) == Len(messages) < 1

\* len(messages) < 2
InsufficientMessages(messages) == Len(messages) < MinMessages

\* One iteration of start()'s while loop after process_pending_summaries:
\* asyncio.sleep(self.check_interval) when it returned, asyncio.sleep(60) in
\* "except Exception" when it raised.
StartSleep(raised) == IF raised THEN BackOff ELSE CheckInterval

\* The run is over and its session closed; what it logged about failures
\* (how many it counted, whether it was cut short) stays readable until the
\* next run starts.
EndRun(p, pr) ==
    [IdleProc EXCEPT !.failed = pr.failed, !.aborted = pr.aborted,
                     !.sleep = IF p = "loop" THEN StartSleep(FALSE) ELSE 0]

\* The caller's loop moves on to the next conversation of its batch: the
\* scheduler archives it first, the summarize-inactive request goes straight
\* to summarize_conversation.  After the last one the run is over (the
\* request's closing commit has nothing pending).
NextConversation(p, pr) ==
    IF pr.i < Len(pr.batch)
    THEN [pr EXCEPT !.i = @ + 1, !.pre = None, !.messages = <<>>, !.summary = NULL,
                    !.usage = None, !.model_name = NULL, !.calls = 0,
                    !.pc = IF p \in SchedulerProcs THEN "archive" ELSE "fetch"]
    ELSE EndRun(p, pr)

\* "except Exception as e" around one conversation, in both callers: the log
\* line formats conversation.conversation_id before anything is counted.
\* Session.rollback() expires every instance the session has loaded, and on
\* an AsyncSession reading an expired attribute raises MissingGreenlet, so
\* after a rollback the handler itself raises: the exception leaves the
\* for loop and ends the run in the outer handler.
ExceptHandler(p, pr) ==
    IF pr.expired
    THEN EndRun(p, [pr EXCEPT !.aborted = TRUE])
    ELSE NextConversation(p, [pr EXCEPT !.failed = @ + 1])

\* "await db.rollback(); raise" of summarize_conversation.
Rollback(pr) == [pr EXCEPT !.tx = NoTx, !.expired = TRUE]

\* process_pending_summaries, up to the for loop: the eligibility query, in
\* whatever order the database returns the rows.
BeginTick(p) ==
    /\ proc[p].pc = "idle"
    /\ LET eligible == get_conversations_to_archive(rows, now)
       IN  IF eligible = {}
           THEN proc' = [proc EXCEPT ![p] = EndRun(p, IdleProc)]
           ELSE \E batch \in Perms(eligible) :
                    proc' = [proc EXCEPT ![p] =
                                [IdleProc EXCEPT !.pc = "archive", !.batch = batch, !.i = 1]]
    /\ UNCHANGED <<now, rows, msgs, faults, genCalls, sumWrites, usageDeltas, statusResponse, handler>>

\* POST /api/user/summarize-inactive, up to the for loop.
BeginRequest(p, u) ==
    /\ proc[p].pc = "idle"
    /\ LET conversations ==
               get_conversations_to_summarize_by_user_inactivity(rows, msgs, u, now)
       IN  IF conversations = {}
           THEN proc' = [proc EXCEPT ![p] = IdleProc]
           ELSE \E batch \in Perms(conversations) :
                    proc' = [proc EXCEPT ![p] =
                                [IdleProc EXCEPT !.pc = "fetch", !.user = u,
                                                 !.batch = batch, !.i = 1]]
    /\ UNCHANGED <<now, rows, msgs, faults, genCalls, sumWrites, usageDeltas, statusResponse, handler>>

\* Step 1 of the loop body: update_conversation_status(db, id, "archived"),
\* pending in the tick's session until summarize_conversation commits.
Archive(p) ==
    /\ proc[p].pc = "archive"
    /\ LET c == Current(p)
       IN  /\ ~LockedByOther(p, c)
           /\ proc' = [proc EXCEPT ![p] =
                  [@ EXCEPT !.pc = "fetch",
                            !.pre = Some(rows[c]),
                            !.tx = (c :> update_conversation_status(rows[c], "archived"))]]
    /\ UNCHANGED <<now, rows, msgs, faults, genCalls, sumWrites, usageDeltas, statusResponse, handler>>

\* summarize_conversation: get_message_history and the len(messages) < 2 test.
Fetch(p) ==
    /\ proc[p].pc = "fetch"
    /\ LET c == Current(p)
           messages == get_message_history(msgs[c])
       IN  proc' = [proc EXCEPT ![p] =
               [@ EXCEPT !.messages = messages,
                         !.pc = IF InsufficientMessages(messages) THEN "short" ELSE "generate"]]
    /\ UNCHANGED <<now, rows, msgs, faults, genCalls, sumWrites, usageDeltas, statusResponse, handler>>

\* The short-circuit: update_conversation_status(db, id, "archived").
ShortCircuit(p) ==
    /\ proc[p].pc = "short"
    /\ LET c == Current(p)
       IN  /\ ~LockedByOther(p, c)
           /\ proc' = [proc EXCEPT ![p] =
                  [@ EXCEPT !.pc = "commit",
                            !.tx = (c :> update_conversation_status(View(p)[c], "archived"))]]
    /\ UNCHANGED <<now, rows, msgs, faults, genCalls, sumWrites, usageDeltas, statusResponse, handler>>

\* get_cumulative_summary_context, then the call of summarizer_agent with
\* the fetched messages (formatted_messages has one entry for each of them, in
\* their order).
Generate(p) ==
    /\ proc[p].pc = "generate"
    /\ LET c == Current(p)
           cumulative_context == get_cumulative_summary_context(View(p), View(p)[c].user_id)
       IN  \E generation \in Generations :
               LET result == summarizer_agent(generation)
               IN  /\ proc' = [proc EXCEPT ![p] =
                          [@ EXCEPT !.pc = "persist", !.summary = result[1],
                                    !.usage = Some(result[2]), !.model_name = result[3],
                                    !.calls = @ + 1]]
                   /\ genCalls' = [genCalls EXCEPT ![c] = @ + 1]
    /\ UNCHANGED <<now, rows, msgs, faults, sumWrites, usageDeltas, statusResponse, handler>>

\* update_conversation_summary(db, id, summary, model=model_name, token_usage=usage)
Persist(p) ==
    /\ proc[p].pc = "persist"
    /\ LET c == Current(p)
       IN  /\ ~LockedByOther(p, c)
           /\ proc' = [proc EXCEPT ![p] =
                  [@ EXCEPT !.pc = "commit",
                            !.tx = (c :> update_conversation_summary(
                                             View(p)[c], proc[p].summary,
                                             proc[p].model_name, proc[p].usage))]]
    /\ UNCHANGED <<now, rows, msgs, faults, genCalls, sumWrites, usageDeltas, statusResponse, handler>>

\* "await db.commit()" of summarize_conversation, the return to the caller
\* (the scheduler counts a success), and the caller's step to the next
\* conversation.
Commit(p) ==
    /\ proc[p].pc = "commit"
    /\ LET c == Current(p)
           done == [proc[p] EXCEPT !.tx = NoTx,
                                   !.successful = IF p \in SchedulerProcs THEN @ + 1 ELSE @]
       IN  /\ rows' = [rows EXCEPT ![c] = proc[p].tx[c]]
           /\ sumWrites' = [sumWrites EXCEPT ![c] = IF proc[p].summary # NULL THEN @ + 1 ELSE @]
           /\ proc' = [proc EXCEPT ![p] = NextConversation(p, done)]
    /\ UNCHANGED <<now, msgs, faults, genCalls, usageDeltas, statusResponse, handler>>

\* Opening the session or the eligibility query raises: the exception is
\* outside the for loop, and "except Exception" at the end of
\* process_pending_summaries logs it and returns.
FailQuery(p) ==
    /\ proc[p].pc = "idle"
    /\ faults > 0
    /\ faults' = faults - 1
    /\ proc' = [proc EXCEPT ![p] = EndRun(p, IdleProc)]
    /\ UNCHANGED <<now, rows, msgs, genCalls, sumWrites, usageDeltas, statusResponse, handler>>

\* Step 1 of the loop body raises (a storage failure): nothing is pending
\* and nothing is rolled back; the loop's handler counts it and continues.
FailArchive(p) ==
    /\ proc[p].pc = "archive"
    /\ faults > 0
    /\ faults' = faults - 1
    /\ proc' = [proc EXCEPT ![p] = ExceptHandler(p, @)]
    /\ UNCHANGED <<now, rows, msgs, genCalls, sumWrites, usageDeltas, statusResponse, handler>>

\* A storage call of summarize_conversation raises (a read, an update or the
\* commit): its handler rolls the session back and re-raises to the caller.
FailSummarize(p) ==
    /\ proc[p].pc \in {"fetch", "short", "generate", "persist", "commit"}
    /\ faults > 0
    /\ faults' = faults - 1
    /\ proc' = [proc EXCEPT ![p] = ExceptHandler(p, Rollback(@))]
    /\ UNCHANGED <<now, rows, msgs, genCalls, sumWrites, usageDeltas, statusResponse, handler>>

\* The cancellation of the scheduler task (lifespan's shutdown): the
\* CancelledError is raised at whatever await the task is suspended in.  It is
\* not an Exception, so no "except Exception" of the tick catches it; it
\* leaves "async with service_session_maker() as db", which closes the session
\* and so discards what is pending, and start() breaks out of its loop.  A
\* commit is atomic: the cancellation finds it either not done or done.
\* CancelFlushing is Cancel with the session committing what is pending.
CancelFlushing(p) ==
    /\ proc[p].pc # "stopped"
    /\ rows' = [c \in DOMAIN rows |->
                    IF c \in DOMAIN proc[p].tx THEN proc[p].tx[c] ELSE rows[c]]
    /\ proc' = [proc EXCEPT ![p] = [@ EXCEPT !.pc = "stopped", !.tx = NoTx]]
    /\ UNCHANGED <<now, msgs, faults, genCalls, sumWrites, usageDeltas, statusResponse, handler>>

Cancel(p) ==
    /\ proc[p].pc # "stopped"
    /\ rows' = rows
    /\ proc' = [proc EXCEPT ![p] = [@ EXCEPT !.pc = "stopped", !.tx = NoTx]]
    /\ UNCHANGED <<now, msgs, faults, genCalls, sumWrites, usageDeltas, statusResponse, handler>>

\* ------------------------------------------------------ specifications
RequestPath ==
    \/ \E d \in AdvanceSteps : AdvanceTime(d)
    \/ \E u \in Users : start_conversation(u)
    \/ \E u \in Users, c \in ConvIds : chat(u, c)

Summarization(P) ==
    \/ \E p \in P : Archive(p)
    \/ \E p \in P : Fetch(p)
    \/ \E p \in P : ShortCircuit(p)
    \/ \E p \in P : Generate(p)
    \/ \E p \in P : Persist(p)
    \/ \E p \in P : Commit(p)

\* The request handlers and the background loop's ticks; storage does not
\* fail.
Next ==
    \/ RequestPath
    \/ BeginTick("loop")
    \/ Summarization({"loop"})

Spec == Init /\ [][Next]_vars

\* The request handlers alone, with the status endpoint and the
\* user-triggered summarize-inactive request.
NextRequests ==
    \/ RequestPath
    \/ \E u \in Users, c \in ConvIds, s \in RequestedStatuses :
           update_conversation_status_endpoint(u, c, s)
    \/ \E u \in Users : BeginRequest("req", u)
    \/ \E p \in {"req"} : Fetch(p)
    \/ \E p \in {"req"} : ShortCircuit(p)
    \/ \E p \in {"req"} : Generate(p)
    \/ \E p \in {"req"} : Persist(p)
    \/ \E p \in {"req"} : Commit(p)

SpecRequests == Init /\ [][NextRequests]_vars

\* The request handlers, the summarize-inactive request and the background
\* loop, scheduled fairly: start() runs a tick after every sleep and each
\* coroutine that is ready to continue is eventually resumed; storage does
\* not fail.
RequestSteps ==
    \/ \E u \in Users : BeginRequest("req", u)
    \/ \E p \in {"req"} : Fetch(p)
    \/ \E p \in {"req"} : ShortCircuit(p)
    \/ \E p \in {"req"} : Generate(p)
    \/ \E p \in {"req"} : Persist(p)
    \/ \E p \in {"req"} : Commit(p)

NextLive ==
    \/ RequestPath
    \/ RequestSteps
    \/ BeginTick("loop")
    \/ Summarization({"loop"})

Fairness ==
    /\ WF_vars(BeginTick("loop"))
    /\ WF_vars(Summarization({"loop"}))
    /\ WF_vars(\E p \in {"req"} : Fetch(p) \/ ShortCircuit(p) \/ Generate(p)
                                       \/ Persist(p) \/ Commit(p))

SpecLive == Init /\ [][NextLive]_vars /\ Fairness

\* The background loop's ticks with storage calls that may fail.
InitFaults ==
    /\ now = 0
    /\ rows = <<>>
    /\ msgs = [c \in ConvIds |-> <<>>]
    /\ proc = [p \in Procs |-> IdleProc]
    /\ faults = MaxFaults
    /\ genCalls = [c \in ConvIds |-> 0]
    /\ sumWrites = [c \in ConvIds |-> 0]
    /\ usageDeltas = [c \in ConvIds |-> <<>>]
    /\ statusResponse = NULL
    /\ handler = [h \in Handlers |-> IdleHandler]

NextFaults ==
    \/ Next
    \/ FailQuery("loop")
    \/ FailArchive("loop")
    \/ FailSummarize("loop")

SpecFaults == InitFaults /\ [][NextFaults]_vars

\* Concurrent chat requests, statement by statement, with storage calls
\* that may fail; conversations are started by start_conversation.
NextChat ==
    \/ \E d \in AdvanceSteps : AdvanceTime(d)
    \/ \E u \in Users : start_conversation(u)
    \/ \E h \in Handlers, u \in Users, c \in ConvIds, usage \in ChatUsages :
           ChatBegin(h, u, c, usage)
    \/ \E h \in Handlers : ChatSave(h)
    \/ \E h \in Handlers : ChatUpdate(h)
    \/ \E h \in Handlers : ChatReadUsage(h)
    \/ \E h \in Handlers : ChatWriteUsage(h)
    \/ \E h \in Handlers : ChatCommit(h)
    \/ \E h \in Handlers : ChatFail(h)

SpecChat == InitFaults /\ [][NextChat]_vars

\* The background loop's tick and a manually triggered
\* process_pending_summaries (POST /api/admin/summarize-pending), each in its
\* own session; storage does not fail.
NextRace ==
    \/ RequestPath
    \/ \E p \in SchedulerProcs : BeginTick(p)
    \/ Summarization(SchedulerProcs)

SpecRace == Init /\ [][NextRace]_vars

\* The request handlers and the background loop until the application shuts
\* down and cancels the loop's task.
NextShutdown ==
    \/ Next
    \/ Cancel("loop")

SpecShutdown == Init /\ [][NextShutdown]_vars

\* The tables as the summarization service may find them when it starts: one
\* conversation of an earlier session, last written at minute 0, with a
\* transcript of 1, 2 or more than 20 messages.  Its token_usage is what
\* increment_conversation_token_usage left (non-zero when the agents of the
\* handlers that called it reported the provider's usage, as those of
\* src/backend/agents.py do), or NULL when the conversation was written by
\* src/backend/main.py, which records no usage.
StoredLengths == {1, MinMessages, HistoryLimit + 1}

StoredUsages == InitialUsages \cup {Some([prompt_tokens |-> 2, completion_tokens |-> 2, total_tokens |-> 4])}

StoredTranscript(n) ==
    [i \in 1..n |-> [user_id |-> "u1", role |-> IF i % 2 = 1 THEN "user" ELSE "assistant",
                     created_at |-> 0]]

InitStored ==
    /\ now = 0
    /\ \E usage \in StoredUsages, n \in StoredLengths :
           /\ rows = (1 :> [NewConversation("u1", 0) EXCEPT !.token_usage = usage,
                                                             !.last_message_at = Some(0)])
           /\ msgs = [c \in ConvIds |-> IF c = 1 THEN StoredTranscript(n) ELSE <<>>]
    /\ proc = [p \in Procs |-> IdleProc]
    /\ faults = 0
    /\ genCalls = [c \in ConvIds |-> 0]
    /\ sumWrites = [c \in ConvIds |-> 0]
    /\ usageDeltas = [c \in ConvIds |-> <<>>]
    /\ statusResponse = NULL
    /\ handler = [h \in Handlers |-> IdleHandler]

NextStored ==
    \/ \E d \in AdvanceSteps : AdvanceTime(d)
    \/ BeginTick("loop")
    \/ Summarization({"loop"})

SpecStored == InitStored /\ [][NextStored]_vars

\* increment_conversation_token_usage and its commit, called with any
\* usage_delta on a conversation whose token_usage is NULL, zero or without
\* the keys.
IncrementUsage(c, usage_delta) ==
    /\ c \in DOMAIN rows
    /\ Len(usageDeltas[c]) < MaxIncrements
    /\ rows' = [rows EXCEPT ![c] =
                    increment_conversation_token_usage(rows[c], usage_delta, ModelName)]
    /\ usageDeltas' = [usageDeltas EXCEPT ![c] = Append(@, usage_delta)]
    /\ UNCHANGED <<now, msgs, proc, faults, genCalls, sumWrites, statusResponse, handler>>

InitUsage ==
    /\ now = 0
    /\ \E usage \in InitialUsages :
           rows = (1 :> [NewConversation("u1", 0) EXCEPT !.token_usage = usage])
    /\ msgs = [c \in ConvIds |-> <<>>]
    /\ proc = [p \in Procs |-> IdleProc]
    /\ faults = 0
    /\ genCalls = [c \in ConvIds |-> 0]
    /\ sumWrites = [c \in ConvIds |-> 0]
    /\ usageDeltas = [c \in ConvIds |-> <<>>]
    /\ statusResponse = NULL
    /\ handler = [h \in Handlers |-> IdleHandler]

NextUsage == \E c \in ConvIds, usage_delta \in UsageDeltas : IncrementUsage(c, usage_delta)

SpecUsage == InitUsage /\ [][NextUsage]_vars

\* ================================================================ claims

\* C1 (eligibility).  For every conversation and every time t,
\* get_conversations_to_archive returns the conversation if and only if its
\* status is 'active' or 'in-progress', its last_message_at is earlier than
\* t minus 15 minutes, and its conversation_summary is null.
C1_Eligibility ==
    \A t \in 0..MaxTime : \A c \in DOMAIN rows :
        c \in get_conversations_to_archive(rows, t)
            <=> /\ rows[c].status = "active" \/ rows[c].status = "in-progress"
                /\ \E at \in 0..MaxTime : rows[c].last_message_at = <<at>> /\ at + 15 < t
                /\ rows[c].conversation_summary = "NULL"

\* A tick has just queried: its batch holds a conversation silent for more
\* than 15 minutes and leaves out an open, unsummarized one silent for
\* exactly 15 minutes.
C1_Witness ==
    /\ proc["loop"].pc = "archive"
    /\ proc["loop"].i = 1
    /\ \E c, d \in DOMAIN rows :
           /\ c \in Range(proc["loop"].batch)
           /\ d \notin Range(proc["loop"].batch)
           /\ rows[d].status \in OpenStatuses
           /\ rows[d].conversation_summary = NULL
           /\ rows[d].last_message_at = Some(now - 15)

\* C2 (short-circuit).  A run of summarize_conversation on a conversation
\* with 0 or 1 messages never reaches the call of summarizer_agent, and
\* (storage not failing) it returns normally, leaving the committed status
\* 'archived' and conversation_summary null.
C2_ShortCircuit ==
    [][\A p \in {"loop"} :
           /\ proc[p].pc \in {"generate", "persist"} => Len(msgs[Current(p)]) >= 2
           /\ (/\ proc[p].pc = "fetch"
               /\ proc'[p] # proc[p]
               /\ Len(msgs[Current(p)]) < 2) => proc'[p].pc = "short"
           /\ (/\ proc[p].pc = "commit"
               /\ proc'[p] # proc[p]
               /\ Len(msgs[Current(p)]) < 2)
                  => /\ rows'[Current(p)].status = "archived"
                     /\ rows'[Current(p)].conversation_summary = NULL
                     /\ proc[p].calls = 0
                     /\ genCalls' = genCalls
                     /\ sumWrites' = sumWrites
                     /\ ~proc'[p].aborted]_vars

\* A tick has committed the short-circuit of a one-message conversation: it
\* is archived without a summary and no generation call was made for it.
C2_Witness ==
    \E c \in DOMAIN rows :
        /\ Len(msgs[c]) = 1
        /\ rows[c].status = "archived"
        /\ rows[c].conversation_summary = NULL
        /\ genCalls[c] = 0
        /\ proc["loop"].pc = "idle"

\* C3 (batch isolation).  Within one tick, when the processing of one
\* conversation raises, every other conversation of the batch is still
\* attempted (the tick ends only after the last one), and what the tick has
\* already committed for the other conversations stays committed.
C3_BatchIsolation ==
    [][\A p \in {"loop"} :
           /\ (proc[p].pc # "idle" /\ proc'[p].pc = "idle")
                  => proc[p].i = Len(proc[p].batch)
           /\ (proc[p].pc # "idle" /\ faults' < faults)
                  => \A b \in DOMAIN rows \ {Current(p)} : rows'[b] = rows[b]]_vars

\* C4 (a failure leaves the conversation retryable).  When a step of the
\* pipeline from the transcript fetch through the commit raises for a
\* conversation with at least 2 messages (one that was eligible when the
\* attempt began), its committed row is what it was before the attempt (not
\* archived), the scheduler counts the failure, and the conversation is in
\* the eligible set again.
C4_FailureRetryable ==
    [][\A p \in {"loop"} :
           (/\ proc[p].pc \in {"fetch", "generate", "persist", "commit"}
            /\ faults' < faults
            /\ Len(msgs[Current(p)]) >= 2
            /\ ArchiveEligible(proc[p].pre[1], now))
               => /\ rows'[Current(p)] = proc[p].pre[1]
                  /\ proc'[p].tx = NoTx
                  /\ proc'[p].failed = proc[p].failed + 1
                  /\ ~proc'[p].aborted
                  /\ Current(p) \in get_conversations_to_archive(rows', now')]_vars

\* C5 (archived is terminal).  Once a conversation's committed status is
\* 'archived', no step changes its status.
C5_ArchivedTerminal ==
    [][\A c \in DOMAIN rows :
           rows[c].status = "archived" => rows'[c].status = "archived"]_vars

\* C6 (only the scheduler archives).  Every committed transition of a
\* conversation from 'active' or 'in-progress' to 'archived' is the commit of
\* a scheduler tick that is processing that conversation.
C6_OnlySchedulerArchives ==
    [][\A c \in DOMAIN rows :
           (rows[c].status \in OpenStatuses /\ rows'[c].status = "archived")
               => \E p \in SchedulerProcs :
                      /\ proc[p].pc = "commit"
                      /\ Current(p) = c
                      /\ proc'[p] # proc[p]]_vars

\* C7 (at-most-once summarization).  For each conversation the summarize
\* generation call is made at most once and conversation_summary is written
\* at most once.
C7_AtMostOnce ==
    \A c \in ConvIds : genCalls[c] <= 1 /\ sumWrites[c] <= 1

\* The user's conversations that carry a summary.
Summarized(u) ==
    {c \in DOMAIN rows : rows[c].user_id = u /\ rows[c].conversation_summary # NULL}

\* C8 (context sentinel).  For every user with no summarized conversation,
\* get_cumulative_summary_context returns exactly the sentinel.
C8_ContextSentinel ==
    \A u \in Users :
        Summarized(u) = {} => get_cumulative_summary_context(rows, u) = Sentinel

\* C9 (context membership and count).  The text has one 'Conversation N' line
\* for each summarized conversation of the user and for no other, its
\* introductory line states their number, and its closing line that number
\* plus one.
C9_ContextMembership ==
    \A u \in Users :
        LET text == get_cumulative_summary_context(rows, u)
            n == Cardinality(Summarized(u))
        IN  text # Sentinel
                => /\ Len(text) = n + 2
                   /\ {text[i].conv : i \in 2..(Len(text) - 1)} = Summarized(u)
                   /\ text[1].count = n
                   /\ text[Len(text)].n = n + 1

\* C10 (context ordering).  For a user whose conversations were created at
\* distinct times, the text numbers the summarized ones 1..n in increasing
\* order of created_at: each one's line carries its rank among them.
C10_ContextOrdering ==
    \A u \in Users :
        LET text == get_cumulative_summary_context(rows, u)
            S == Summarized(u)
            Rank(c) == Cardinality({d \in S : rows[d].created_at <= rows[c].created_at})
        IN  (\A c, d \in DOMAIN rows :
                 (c # d /\ rows[c].user_id = u /\ rows[d].user_id = u)
                     => rows[c].created_at # rows[d].created_at)
                => \A c \in S :
                       \E i \in 1..Len(text) :
                           /\ "conv" \in DOMAIN text[i]
                           /\ text[i].conv = c
                           /\ text[i].n = Rank(c)

\* The value a usage dict gives for a key, a missing key counting as 0.
Counter(d, key) == IF key \in DOMAIN d THEN d[key] ELSE 0

RECURSIVE SumOf(_, _)
\* The sum over a sequence of deltas of one key's values.
SumOf(deltas, key) ==
    IF deltas = <<>> THEN 0
    ELSE Counter(Head(deltas), key) + SumOf(Tail(deltas), key)

\* C11 (usage accumulation).  On a conversation whose token_usage started
\* at (0,0,0), NULL or without the keys, after any sequence of
\* increment_conversation_token_usage calls the stored counters are the
\* element-wise sums of all the deltas; after two calls (p1+p2, c1+c2, t1+t2).
C11_UsageAccumulation ==
    \A c \in DOMAIN rows :
        usageDeltas[c] # <<>>
            => /\ rows[c].token_usage # None
               /\ DOMAIN rows[c].token_usage[1] = UsageKeys
               /\ \A key \in UsageKeys :
                      rows[c].token_usage[1][key] = SumOf(usageDeltas[c], key)

\* Two increments, each with a non-zero prompt_tokens, have been applied.
C11_Witness ==
    \E c \in DOMAIN rows :
        /\ Len(usageDeltas[c]) = 2
        /\ Counter(usageDeltas[c][1], "prompt_tokens") = 2
        /\ Counter(usageDeltas[c][2], "prompt_tokens") = 2
        /\ "total_tokens" \notin DOMAIN usageDeltas[c][2]
        /\ rows[c].token_usage[1].prompt_tokens = 4

\* C12 (usage never negative).  After any sequence of
\* increment_conversation_token_usage calls, with deltas whose fields may be
\* missing or negative, each of the three stored counters is a non-negative
\* integer.
C12_UsageNonNegative ==
    \A c \in DOMAIN rows :
        rows[c].token_usage # None
            => \A key \in DOMAIN rows[c].token_usage[1] :
                   rows[c].token_usage[1][key] >= 0

\* C13 (inactivity definition).  get_user_inactivity_status reports
\* is_inactive exactly when the user has no message with role 'user' created
\* within the trailing 15 minutes; the assistant's messages do not count.
C13_InactivityDefinition ==
    \A u \in Users :
        get_user_inactivity_status(rows, msgs, u, now).is_inactive
            <=> ~\E c \in DOMAIN rows :
                    /\ rows[c].user_id = u
                    /\ \E i \in 1..Len(msgs[c]) :
                           /\ msgs[c][i].role = "user"
                           /\ msgs[c][i].created_at >= now - 15

\* The last thing committed in conversation c is a chat turn at time t0: a
\* user message and the reply, both stamped t0, and last_message_at = t0.
LastChatTurn(c, t0) ==
    /\ Len(msgs[c]) >= 2
    /\ msgs[c][Len(msgs[c]) - 1].role = "user"
    /\ msgs[c][Len(msgs[c]) - 1].created_at = t0
    /\ msgs[c][Len(msgs[c])].role = "assistant"
    /\ msgs[c][Len(msgs[c])].created_at = t0
    /\ rows[c].last_message_at = Some(t0)

\* C14 (end to end).  After a chat turn committed in conversation X at T0
\* and nothing else touching X, X is in the eligible set of a tick that runs
\* at T0 + 16 minutes or later, and once that tick has archived X its
\* committed row has a summary, a model and three non-negative usage
\* counters.
C14_EndToEnd ==
    \A c \in DOMAIN rows : \A t0 \in 0..MaxTime :
        LastChatTurn(c, t0)
            => /\ (rows[c].status = "in-progress" /\ now >= t0 + 16)
                      => c \in get_conversations_to_archive(rows, now)
               /\ rows[c].status = "archived"
                      => /\ rows[c].conversation_summary # NULL
                         /\ rows[c].model # NULL
                         /\ rows[c].token_usage # None
                         /\ \A key \in UsageKeys : rows[c].token_usage[1][key] >= 0

\* C15 (an invalid status is rejected without mutation).  A status request
\* with a string other than 'active', 'in-progress' and 'archived' ends in
\* the validation error and changes no field of any conversation; every
\* conversation's status is one of the three values in every reachable state.
C15_InvalidStatusRejected ==
    /\ [](\A c \in DOMAIN rows : rows[c].status \in {"active", "in-progress", "archived"})
    /\ [][(statusResponse # "ValueError" /\ statusResponse' = "ValueError")
              => rows' = rows /\ msgs' = msgs]_vars

\* A status request has just been rejected while a conversation exists.
C15_Witness ==
    /\ statusResponse = "ValueError"
    /\ \E c \in DOMAIN rows : rows[c].status = "active"

\* C16 (invalid transitions are rejected).  Setting status 'archived' on a
\* conversation whose status is already 'archived' fails: the short-circuit's
\* update of a conversation the tick has just archived does not go through to
\* the commit.
C16_ArchivedTwiceRejected ==
    [][\A p \in {"loop"} :
           (/\ proc[p].pc = "short"
            /\ View(p)[Current(p)].status = "archived"
            /\ proc'[p] # proc[p])
               => proc'[p].pc # "commit"]_vars

\* C17 (summary metadata is never null).  When summarize_conversation
\* commits for a conversation with at least 2 messages, the committed
\* conversation_summary is the text the summarize call returned, model is the
\* model name it reported, and token_usage is the record of the three counters
\* it reported: (0,0,0), not null, whatever token_usage held before.
C17_SummaryMetadata ==
    [][\A p \in {"loop"} :
           (/\ proc[p].pc = "commit"
            /\ proc'[p] # proc[p]
            /\ Len(msgs[Current(p)]) >= 2)
               => /\ proc[p].summary \in SummaryTexts \cup {FallbackSummary}
                  /\ rows'[Current(p)].conversation_summary = proc[p].summary
                  /\ rows'[Current(p)].model = "gemini-2.5-pro"
                  /\ rows'[Current(p)].token_usage =
                         <<[prompt_tokens |-> 0, completion_tokens |-> 0, total_tokens |-> 0]>>]_vars

\* A summary has been committed for a conversation whose token_usage was
\* NULL before the tick.
C17_Witness ==
    \E c \in DOMAIN rows :
        /\ sumWrites[c] = 1
        /\ rows[c].conversation_summary # NULL
        /\ rows[c].token_usage = Some(ZeroUsage)
        /\ usageDeltas[c] = <<>>
        /\ proc["loop"].pc = "idle"

\* C18 (full ordered transcript).  For a conversation with n >= 2 messages,
\* the summarize call receives all n messages of the conversation in
\* ascending created_at order, none omitted.
C18_FullTranscript ==
    [][\A p \in {"loop"} :
           (proc[p].pc = "generate" /\ proc'[p].pc = "persist")
               => /\ Len(proc[p].messages) = Len(msgs[Current(p)])
                  /\ proc[p].messages = msgs[Current(p)]
                  /\ \A i, j \in 1..Len(proc[p].messages) :
                         i < j => proc[p].messages[i].created_at
                                      <= proc[p].messages[j].created_at]_vars

\* C19 (cooperative shutdown).  Once the scheduler task is cancelled the
\* loop has terminated and starts no further tick; the cancellation commits
\* nothing and leaves nothing pending, so the conversation in flight keeps its
\* pre-attempt row; and every commit the loop makes takes a conversation from
\* its pre-attempt row to a completed one (archived together with its
\* summary, model and usage, or the short-circuit's archive alone).
C19_CooperativeShutdown ==
    /\ [][proc["loop"].pc = "stopped" => proc'["loop"] = proc["loop"]]_vars
    /\ [][(proc["loop"].pc # "stopped" /\ proc'["loop"].pc = "stopped")
              => /\ rows' = rows
                 /\ proc'["loop"].tx = NoTx
                 /\ proc["loop"].pc \in {"fetch", "short", "generate", "persist", "commit"}
                        => rows'[Current("loop")] = proc["loop"].pre[1]]_vars
    /\ [][\A c \in DOMAIN rows :
              (rows'[c] # rows[c] /\ proc'["loop"] # proc["loop"])
                  => /\ proc["loop"].pre = <<rows[c]>>
                     /\ \/ rows'[c] = [rows[c] EXCEPT !.status = "archived"]
                        \/ /\ proc["loop"].summary # NULL
                           /\ rows'[c] = [rows[c] EXCEPT
                                  !.status = "archived",
                                  !.conversation_summary = proc["loop"].summary,
                                  !.model = "gemini-2.5-pro",
                                  !.token_usage = Some(ZeroUsage)]]_vars

\* The loop was cancelled during its second conversation, after its update
\* of the status: the first one is archived with its summary, the second one
\* is as it was before the attempt.
C19_Witness ==
    /\ proc["loop"].pc = "stopped"
    /\ proc["loop"].i = 2
    /\ proc["loop"].pre # None
    /\ rows[proc["loop"].batch[1]].status = "archived"
    /\ rows[proc["loop"].batch[1]].conversation_summary # NULL
    /\ rows[proc["loop"].batch[2]] = proc["loop"].pre[1]
    /\ rows[proc["loop"].batch[2]].status \in OpenStatuses

\* C20 (a generation failure is absorbed).  The summarize call always
\* returns a text, a zero usage and a model name, the fallback text when the
\* generation failed; the run then persists and commits the fallback summary
\* like any other, without raising: the scheduler counts no failure and goes
\* on to the next conversation of the batch.
C20_GenerationFailureAbsorbed ==
    [][\A p \in {"loop"} :
           /\ (proc[p].pc = "generate" /\ proc'[p] # proc[p])
                  => /\ proc'[p].pc = "persist"
                     /\ proc'[p].summary \in SummaryTexts \cup {FallbackSummary}
                     /\ proc'[p].usage = Some(ZeroUsage)
                     /\ proc'[p].failed = proc[p].failed
                     /\ ~proc'[p].aborted
           /\ (/\ proc[p].pc \in {"persist", "commit"}
               /\ proc[p].summary = FallbackSummary
               /\ proc'[p] # proc[p])
                  => /\ proc'[p].failed = proc[p].failed
                     /\ ~proc'[p].aborted
                     /\ proc[p].pc = "persist" => proc'[p].pc = "commit"
                     /\ proc[p].pc = "commit"
                            => /\ rows'[Current(p)].status = "archived"
                               /\ rows'[Current(p)].conversation_summary = FallbackSummary
                               /\ proc[p].i < Len(proc[p].batch)
                                      => /\ proc'[p].pc = "archive"
                                         /\ proc'[p].i = proc[p].i + 1
                                         /\ proc'[p].successful = proc[p].successful + 1]_vars

\* The tick has committed the fallback summary for the first conversation of
\* its batch, counted it a success and moved on to the second.
C20_Witness ==
    /\ proc["loop"].i = 2
    /\ proc["loop"].successful = 1
    /\ proc["loop"].failed = 0
    /\ rows[proc["loop"].batch[1]].conversation_summary = FallbackSummary
    /\ rows[proc["loop"].batch[1]].status = "archived"

\* C22 (archived flag redundancy).  In every committed state a
\* conversation's boolean archived flag is true exactly when its status is
\* 'archived'.
C22_ArchivedFlag ==
    \A c \in DOMAIN rows : rows[c].archived <=> rows[c].status = "archived"

\* C26 (summary implies archived).  In every committed state every
\* conversation with a non-null conversation_summary has status 'archived'.
C26_SummaryImpliesArchived ==
    \A c \in DOMAIN rows :
        rows[c].conversation_summary # NULL => rows[c].status = "archived"

\* C25 (own transaction boundary).  The commit inside summarize_conversation
\* applies only to the writes of that invocation: the status update its
\* caller, the scheduler, had pending before the call is not committed by it
\* and is still pending afterwards.
C25_OwnTransaction ==
    [][\A p \in {"loop"} :
           (proc[p].pc = "commit" /\ proc'[p] # proc[p])
               => /\ rows'[Current(p)].status = proc[p].pre[1].status
                  /\ Current(p) \in DOMAIN proc'[p].tx
                  /\ proc'[p].tx[Current(p)].status = "archived"]_vars

\* C27 (no stale archival).  Whenever the scheduler commits status
\* 'archived' for a conversation, the conversation's committed
\* last_message_at at that moment is at least 15 minutes old.
C27_NoStaleArchival ==
    [][\A c \in DOMAIN rows :
           (/\ rows[c].status # "archived"
            /\ rows'[c].status = "archived"
            /\ proc'["loop"] # proc["loop"])
               => /\ rows[c].last_message_at # None
                  /\ rows[c].last_message_at[1] + 15 <= now]_vars

\* A conversation's stored counter for a key, 0 when token_usage is null or
\* lacks the key.
StoredCounter(r, key) ==
    IF r.token_usage = None THEN 0 ELSE Counter(r.token_usage[1], key)

OwnedBy(u) == [c \in {d \in DOMAIN rows : rows[d].user_id = u} |-> rows[c]]

C24_LoopLevelBackOff ==
    [][(proc["loop"].pc = "idle" /\ faults' < faults)
           => /\ proc'["loop"].pc = "idle"
              /\ proc'["loop"].sleep = BackOff]_vars

\* The conversation's last message is more than 15 minutes old.
Overdue(c) ==
    /\ rows[c].last_message_at # None
    /\ rows[c].last_message_at[1] + FifteenMinutes < now

\* C21 (eventual archival).  Under fair scheduling of the ticks and without
\* storage failures, no conversation stays forever in 'active' or
\* 'in-progress' with its last message more than 15 minutes old: a
\* conversation that receives no further message eventually has committed
\* status 'archived', whatever the request handlers did to it in between.
C21_EventualArchival ==
    \A c \in ConvIds :
        []<>(c \in DOMAIN rows => (rows[c].status = "archived" \/ ~Overdue(c)))

\* Handler h's request ends in this step with its commit.
Commits(h) ==
    /\ handler[h].pc = "commit"
    /\ handler'[h].pc = "idle"
    /\ handler'[h].outcome = "committed"

\* Handler h's request ends in this step with a rollback.
Fails(h) ==
    /\ handler[h].pc # "idle"
    /\ handler'[h].pc = "idle"
    /\ handler'[h].outcome = "failed"

\* C29 (no lost usage update).  Whenever a chat handler commits, each stored
\* counter of its conversation is the value committed just before plus the
\* handler's delta, whatever another handler working on the same
\* conversation read, wrote or committed in between; so after two concurrent
\* handlers have committed the counters are the previous value plus d1
\* plus d2.
C29_NoLostUsageUpdate ==
    [][\A h \in Handlers :
           Commits(h) =>
               \A key \in UsageKeys :
                   StoredCounter(rows'[handler[h].conversation_id], key)
                       = StoredCounter(rows[handler[h].conversation_id], key)
                             + GetOrZero(handler[h].usage, key)]_vars

\* Both handlers committed a turn with a non-zero delta on the same
\* conversation, and one of them began before the other committed: the
\* token_usage it loaded with the conversation is not the one its increment
\* read.
C29_Witness ==
    \E h, g \in Handlers :
        /\ h # g
        /\ handler[h].outcome = "committed"
        /\ handler[g].outcome = "committed"
        /\ handler[h].conversation_id = handler[g].conversation_id
        /\ handler[h].usage # ZeroUsage
        /\ handler[g].usage # ZeroUsage
        /\ handler[g].conversation[1].token_usage # handler[g].current_usage
        /\ StoredCounter(rows[handler[h].conversation_id], "total_tokens") = 8

\* s is an initial segment of t.
IsPrefix(s, t) == Len(s) <= Len(t) /\ SubSeq(t, 1, Len(s)) = s

\* C30 (chat-turn atomicity).  A chat turn commits all of its effects in one
\* step (exactly one user message followed by one assistant message
\* appended, last_message_at bumped, status 'in-progress', usage
\* incremented) and a turn that fails commits nothing; no other step of a
\* handler changes committed rows or messages; no committed transcript has a
\* user message without the assistant message after it; stored messages are
\* never modified or removed.
C30_ChatTurnAtomicity ==
    /\ [](\A c \in DOMAIN rows : \A i \in 1..Len(msgs[c]) :
              msgs[c][i].role = "user"
                  => i < Len(msgs[c]) /\ msgs[c][i + 1].role = "assistant")
    /\ [][/\ \A d \in ConvIds : IsPrefix(msgs[d], msgs'[d])
           /\ \A h \in Handlers :
                  LET c == handler[h].conversation_id
                  IN  /\ Commits(h) =>
                             /\ Len(msgs'[c]) = Len(msgs[c]) + 2
                             /\ msgs'[c][Len(msgs[c]) + 1].role = "user"
                             /\ msgs'[c][Len(msgs[c]) + 2].role = "assistant"
                             /\ rows'[c].last_message_at # None
                             /\ rows'[c].last_message_at[1] >= handler[h].began
                             /\ rows'[c].status = "in-progress"
                             /\ StoredCounter(rows'[c], "total_tokens")
                                    = StoredCounter(rows[c], "total_tokens")
                                          + GetOrZero(handler[h].usage, "total_tokens")
                      /\ Fails(h) => rows' = rows /\ msgs' = msgs
           /\ (handler' # handler /\ ~\E g \in Handlers : Commits(g))
                  => rows' = rows /\ msgs' = msgs]_vars

\* One turn was rolled back at its commit, with both messages and the row's
\* update pending, and another turn on the same conversation committed.
C30_Witness ==
    \E h, g \in Handlers :
        /\ handler[h].outcome = "failed"
        /\ handler[h].failedAt = "commit"
        /\ handler[g].outcome = "committed"
        /\ handler[h].conversation_id = handler[g].conversation_id
        /\ Len(msgs[handler[g].conversation_id]) = 3

====
